---- MODULE Spec2Model ----
(***************************************************************************)
(* Model of src/main.js: the third-person character controller (movement   *)
(* integrator, collision oracle, camera rig, mission proximity detector).  *)
(*                                                                         *)
(* Numbers.  JavaScript numbers are modelled in fixed point:               *)
(*   lengths and speeds in thousandths of a world unit (per second),       *)
(*   time in milliseconds, angles in milliradians, unit vectors and        *)
(*   joystick fractions in thousandths.  A product of two scaled values is *)
(*   divided by 1000 and rounded toward zero (TDiv).  Math.sqrt is the     *)
(*   integer square root, so a speed is known to within one thousandth.    *)
(***************************************************************************)
EXTENDS Integers, Sequences, FiniteSets, TLC

VARIABLES
    position,      \* character.position  [x, y, z]
    velocity,      \* velocity            [x, y, z]
    isGrounded,    \* isGrounded
    isSprinting,   \* isSprinting
    rotationY,     \* character.rotation.y
    keys,          \* the entries of `keys` that are true, among those the program reads
    joyActive,     \* joyActive
    joyVector,     \* joyVector           [x, y]
    yaw,           \* yaw
    pitch,         \* pitch
    targetYaw,     \* targetYaw
    targetPitch,   \* targetPitch
    pointerLocked, \* document.pointerLockElement === document.body
    touchLook,     \* touchLook
    blockedBoxes,  \* blockedBoxes: sequence of [min, max, name]
    missionStops,  \* missionStops: sequence of [x, y, z, baseY, key] (group.position and key)
    activeMission, \* activeMission: 0 is null, i is the JavaScript index i - 1
    actions,       \* the clip names present in `actions`
    currentAction, \* currentAction: a clip name, "none" while undefined
    frame,         \* number of frames processed so far
    assetsLoaded,  \* assetsLoaded
    userReady,     \* userReady
    loadingShown,  \* loadingContainer.style.display !== 'none'
    loops,         \* the number of requestAnimationFrame loops started by animate()
    worldLoaded,   \* the load of mainland.glb: "pending" or "loaded" (its callback has run)
    charLoaded,    \* the load of finalmainmodel.glb: "pending" or "loaded"
    isFullMapOpen, \* isFullMapOpen
    cameraDist,    \* cameraDist
    elapsed,       \* milliseconds since clock.getDelta() was last called
    lastDelta,     \* the delta the last processed frame passed to its updates
    twin,          \* a second run of the program, compared with this one: its own values
                   \* of the variables in runVars
    turn,          \* which of the two runs takes the next step
    popupKey,      \* the mission key the popup shows, "none" while popupOverlay is hidden
    activeGallery, \* activeGallery: sequence of image paths
    galleryIndex,  \* galleryIndex: a number or NaN
    QUALITY,       \* QUALITY: "low", "medium" or "high"
    qualityLocked, \* qualityLocked
    csm,           \* csm: "null" or "CSM", an instance with its cascades
    shadowMapEnabled \* renderer.shadowMap.enabled

vars == <<position, velocity, isGrounded, isSprinting, rotationY, keys, joyActive,
          joyVector, yaw, pitch, targetYaw, targetPitch, pointerLocked, touchLook,
          blockedBoxes, missionStops, activeMission, actions, currentAction, frame,
          assetsLoaded, userReady, loadingShown, loops, worldLoaded, charLoaded,
          isFullMapOpen,
          cameraDist, elapsed, lastDelta, twin, turn, popupKey, activeGallery,
          galleryIndex, QUALITY, qualityLocked, csm, shadowMapEnabled>>

playerVars == <<position, velocity, isGrounded, isSprinting, rotationY>>
inputVars  == <<keys, joyActive, joyVector>>
cameraVars == <<yaw, pitch, targetYaw, targetPitch>>
lookVars   == <<pointerLocked, touchLook>>
worldVars  == <<blockedBoxes, missionStops>>
clipVars   == <<actions, currentAction>>
startVars  == <<assetsLoaded, userReady, loadingShown, loops, worldLoaded, charLoaded>>
clockVars  == <<elapsed, lastDelta>>
\* what the key, joystick, look and teleport handlers of a running game leave alone
twinVars   == <<twin, turn>>
uiVars     == <<popupKey, activeGallery, galleryIndex>>
qualityVars == <<QUALITY, qualityLocked, csm, shadowMapEnabled>>
shellVars  == <<startVars, isFullMapOpen, cameraDist, clockVars, twinVars, uiVars, qualityVars>>

(***************************************************************************)
(* Program constants, in the fixed-point units above.                      *)
(***************************************************************************)
GRAVITY      == -35      \* units / s^2
JUMP_FORCE   == 12000
WALK_SPEED   == 8000
SPRINT_SPEED == 15000
ACCELERATION == 60       \* units / s^2
DECELERATION == 40       \* units / s^2
AIR_CONTROL  == 500      \* 0.5
PLAYER_RADIUS == 600
PLAYER_HEIGHT == 2000
INTERACT_DISTANCE == 4000
MOUSE_SENSITIVITY == 22  \* 0.0022 rad per pixel, in ten-thousandths
CAMERA_SMOOTHING == 5
MIN_DIST     == 2000
MAX_DIST     == 8000
JOY_MAX      == 40       \* const max = 40, pixels
DELTA_MAX    == 33       \* Math.min(clock.getDelta(), 0.033)
Pi           == 3142

MAP_BOUNDS == [minX |-> -145000, maxX |-> 180000, minZ |-> -80000, maxZ |-> 240000]
TwoPi  == 2 * Pi
HalfPi == Pi \div 2
PITCH_MIN == -(Pi \div 10) + 1     \* -Math.PI / 10 + 0.001
PITCH_MAX == HalfPi - 1            \*  Math.PI / 2 - 0.001
BLOCKED_NAMES == {"Object_35", "Object_43", "Object_47", "Object_15", "Object_79"}

(***************************************************************************)
(* Arithmetic                                                              *)
(***************************************************************************)
Abs(a) == IF a < 0 THEN -a ELSE a
Min(a, b) == IF a < b THEN a ELSE b
Max(a, b) == IF a > b THEN a ELSE b

\* a / b rounded toward zero (b > 0)
TDiv(a, b) == IF a >= 0 THEN a \div b ELSE -((-a) \div b)

\* THREE.MathUtils.clamp
Clamp(v, lo, hi) == Max(lo, Min(hi, v))

\* THREE.MathUtils.lerp(x, y, t) with t in thousandths
Lerp(x, y, t) == x + TDiv((y - x) * t, 1000)

\* the element of a one-element set
The(S) == CHOOSE r \in S : TRUE

\* JavaScript a % m: the remainder has the sign of the dividend
JsMod(a, m) == a - m * TDiv(a, m)

\* the largest r in lo..hi with r * r <= n, by bisection
SqrtSearch[n \in Nat, lo \in Nat, hi \in Nat] ==
    IF lo >= hi THEN lo
    ELSE LET mid == (lo + hi + 1) \div 2
         IN  IF mid * mid <= n THEN SqrtSearch[n, mid, hi]
                               ELSE SqrtSearch[n, lo, mid - 1]

\* Math.sqrt, rounded down
Sqrt(n) == SqrtSearch[n, 0, 46340]

\* Math.sin for an angle in milliradians, in thousandths
SinHalfTurn(x) ==
    LET p == (x * (Pi - x)) \div 64
        d == (5 * Pi * Pi) \div 64 - 4 * p
    IN  (16 * p * 1000 + d \div 2) \div d
Sin(a) ==
    LET r == ((a % TwoPi) + TwoPi) % TwoPi
    IN  IF r <= Pi THEN SinHalfTurn(r) ELSE -SinHalfTurn(r - Pi)
Cos(a) == Sin(a + HalfPi)

\* Math.atan for a ratio in [0, 1], in thousandths
AtanUnit(t) == TDiv(t * (785 + TDiv(273 * (1000 - t), 1000)), 1000)

\* Math.atan2(y, x) in milliradians, in (-Pi, Pi]
Atan2(y, x) ==
    IF x = 0 /\ y = 0 THEN 0
    ELSE LET ax == Abs(x)
             ay == Abs(y)
             a  == IF ax >= ay THEN AtanUnit((ay * 1000) \div ax)
                               ELSE HalfPi - AtanUnit((ax * 1000) \div ay)
             b  == IF x < 0 THEN Pi - a ELSE a
         IN  IF y < 0 THEN -b ELSE b

Vec(x, y, z) == [x |-> x, y |-> y, z |-> z]

\* Vector lengthSq() of the horizontal part, in millionths
LengthSq2(x, z) == x * x + z * z

\* Math.sqrt(velocity.x ** 2 + velocity.z ** 2)
HSpeed(v) == Sqrt(v.x * v.x + v.z * v.z)

(***************************************************************************)
(* Collision oracle                                                        *)
(***************************************************************************)
\* THREE.Box3.intersectsBox: boxes that touch intersect
IntersectsBox(a, b) ==
    ~ (  b.max.x < a.min.x \/ b.min.x > a.max.x
      \/ b.max.y < a.min.y \/ b.min.y > a.max.y
      \/ b.max.z < a.min.z \/ b.min.z > a.max.z )

\* playerBox.min.set(...), playerBox.max.set(...)
PlayerBox(p) ==
    [min |-> Vec(p.x - PLAYER_RADIUS, p.y, p.z - PLAYER_RADIUS),
     max |-> Vec(p.x + PLAYER_RADIUS, p.y + PLAYER_HEIGHT, p.z + PLAYER_RADIUS)]

WouldCollideFirstOnly(nextPos) ==
    Len(blockedBoxes) >= 1 /\ IntersectsBox(PlayerBox(nextPos), blockedBoxes[1])
wouldCollide(nextPos) ==
    \E i \in 1..Len(blockedBoxes) : IntersectsBox(PlayerBox(nextPos), blockedBoxes[i])

ClampXOnly(p) == [p EXCEPT !.x = Max(MAP_BOUNDS.minX, Min(MAP_BOUNDS.maxX, p.x))]
clampCharacterPosition(p) ==
    [p EXCEPT !.x = Max(MAP_BOUNDS.minX, Min(MAP_BOUNDS.maxX, p.x)),
              !.z = Max(MAP_BOUNDS.minZ, Min(MAP_BOUNDS.maxZ, p.z))]

(***************************************************************************)
(* Movement integrator: updatePlayerMovement                               *)
(***************************************************************************)
camForwardFacing == [x |-> -Sin(rotationY), z |-> -Cos(rotationY)]
camForward == [x |-> -Sin(yaw), z |-> -Cos(yaw)]
\* crossVectors(camForward, (0, 1, 0))
camRight == [x |-> -camForward.z, z |-> camForward.x]

KeyTerm(k, v, sign) == IF k \in keys THEN [x |-> sign * v.x, z |-> sign * v.z]
                                     ELSE [x |-> 0, z |-> 0]
\* joyVector.lengthSq() > 0.01
JoyTerm ==
    IF joyVector.x * joyVector.x + joyVector.y * joyVector.y > 10000
    THEN [x |-> TDiv(camForward.x * (-joyVector.y), 1000) + TDiv(camRight.x * joyVector.x, 1000),
          z |-> TDiv(camForward.z * (-joyVector.y), 1000) + TDiv(camRight.z * joyVector.x, 1000)]
    ELSE [x |-> 0, z |-> 0]

\* inputDir before it is normalized
InputDir ==
    LET w == KeyTerm("w", camForward, 1)
        s == KeyTerm("s", camForward, -1)
        a == KeyTerm("a", camRight, -1)
        d == KeyTerm("d", camRight, 1)
    IN  [x |-> w.x + s.x + a.x + d.x + JoyTerm.x,
         z |-> w.z + s.z + a.z + d.z + JoyTerm.z]

\* inputDir.lengthSq() > 0.001: the frame accelerates
HasIntent == LengthSq2(InputDir.x, InputDir.z) > 1000

\* keys.shift && inputDir.lengthSq() > 0
SprintRequested == "shift" \in keys /\ LengthSq2(InputDir.x, InputDir.z) > 0

\* Vector3.normalize
NormalizeNone(d) == d
\* the length is taken in ten-thousandths, so that short vectors keep their direction
Normalize(d) ==
    The({ The({ [x |-> TDiv(dir.x * 10000, by), z |-> TDiv(dir.z * 10000, by)] :
                by \in { IF len = 0 THEN 1 ELSE len :
                            len \in {Sqrt(LengthSq2(dir.x, dir.z) * 100)} } }) :
          dir \in {d} })

\* "Cap speed"
CapNothing(v, targetSpeed) == v
CapSpeed(v, targetSpeed) ==
    The({ The({ IF hSpeed > targetSpeed
                THEN [u EXCEPT !.x = TDiv(u.x * targetSpeed, hSpeed),
                               !.z = TDiv(u.z * targetSpeed, hSpeed)]
                ELSE u :
                hSpeed \in {HSpeed(u)} }) :
          u \in {v} })

\* the acceleration branch
Accelerate(v, grounded, targetSpeed, delta) ==
    The({ CapSpeed([v EXCEPT !.x = v.x + TDiv(dir.x * accel * delta, 1000),
                             !.z = v.z + TDiv(dir.z * accel * delta, 1000)], targetSpeed) :
          dir \in {Normalize(InputDir)},
          accel \in {IF grounded THEN ACCELERATION ELSE TDiv(ACCELERATION * AIR_CONTROL, 1000)} })

\* the deceleration branch
DecelerateOvershoot(v, grounded, delta) ==
    LET decel  == IF grounded THEN DECELERATION ELSE TDiv(DECELERATION * AIR_CONTROL, 1000)
        hSpeed == HSpeed(v)
        newHSpeed == hSpeed - decel * delta
    IN  IF hSpeed > 0
        THEN [v EXCEPT !.x = TDiv(v.x * newHSpeed, hSpeed), !.z = TDiv(v.z * newHSpeed, hSpeed)]
        ELSE [v EXCEPT !.x = 0, !.z = 0]
Decelerate(v, grounded, delta) ==
    LET decel  == IF grounded THEN DECELERATION ELSE TDiv(DECELERATION * AIR_CONTROL, 1000)
        hSpeed == HSpeed(v)
        newHSpeed == Max(0, hSpeed - decel * delta)
    IN  IF hSpeed > 0
        THEN [v EXCEPT !.x = TDiv(v.x * newHSpeed, hSpeed), !.z = TDiv(v.z * newHSpeed, hSpeed)]
        ELSE [v EXCEPT !.x = 0, !.z = 0]

\* "Move": the candidate position
NextPos(p, v, delta) ==
    Vec(p.x + TDiv(v.x * delta, 1000), p.y + TDiv(v.y * delta, 1000),
        p.z + TDiv(v.z * delta, 1000))

\* "Floor collision": [position, velocity, isGrounded] after it
FloorNoSnap(p, v, grounded) ==
    IF p.y > 100 THEN [position |-> p, velocity |-> v, isGrounded |-> FALSE]
    ELSE [position |-> p, velocity |-> v, isGrounded |-> grounded]
FloorCollision(p, v, grounded) ==
    IF p.y <= 0
    THEN [position |-> [p EXCEPT !.y = 0], velocity |-> [v EXCEPT !.y = 0], isGrounded |-> TRUE]
    ELSE IF p.y > 100
    THEN [position |-> p, velocity |-> v, isGrounded |-> FALSE]
    ELSE [position |-> p, velocity |-> v, isGrounded |-> grounded]

\* rotDiff = ((targetRot - character.rotation.y + Math.PI) % (Math.PI * 2)) - Math.PI
RotDiff(targetRot, rot) == JsMod(targetRot - rot + Pi, TwoPi) - Pi

\* "Rotation": character.rotation.y after the frame
Rotate(rot, v, delta) ==
    IF HSpeed(v) > 500
    THEN rot + TDiv(RotDiff(Atan2(v.x, v.z), rot) * 15 * delta, 1000)
    ELSE rot

\* actions.a || actions.b; "none" is undefined
Clip(a, b) == IF a \in actions THEN a ELSE IF b \in actions THEN b ELSE "none"

\* "Animation State": nextAction
NextActionShiftOnly(grounded, hSpeed, sprinting) ==
    IF ~grounded THEN Clip("jump", "idle")
    ELSE IF hSpeed > 500
    THEN (IF "shift" \in keys THEN Clip("sprint", "running") ELSE Clip("running", "running"))
    ELSE Clip("idle", "idle")
NextActionNoThreshold(grounded, hSpeed, sprinting) ==
    IF ~grounded THEN Clip("jump", "idle")
    ELSE IF hSpeed >= 0
    THEN (IF sprinting THEN Clip("sprint", "running") ELSE Clip("running", "running"))
    ELSE Clip("idle", "idle")
NextAction(grounded, hSpeed, sprinting) ==
    IF ~grounded THEN Clip("jump", "idle")
    ELSE IF hSpeed > 500
    THEN (IF sprinting THEN Clip("sprint", "running") ELSE Clip("running", "running"))
    ELSE Clip("idle", "idle")

\* velocity after the acceleration or deceleration branch and gravity
IntegrateNoGravity(delta) ==
    LET targetSpeed == IF SprintRequested THEN SPRINT_SPEED ELSE WALK_SPEED
    IN  IF HasIntent THEN Accelerate(velocity, isGrounded, targetSpeed, delta)
                     ELSE Decelerate(velocity, isGrounded, delta)
Integrate(delta) ==
    LET targetSpeed == IF SprintRequested THEN SPRINT_SPEED ELSE WALK_SPEED
        v1 == IF HasIntent THEN Accelerate(velocity, isGrounded, targetSpeed, delta)
                           ELSE Decelerate(velocity, isGrounded, delta)
    IN  IF ~isGrounded THEN [v1 EXCEPT !.y = v1.y + GRAVITY * delta] ELSE v1

\* nextPos of the frame
Candidate(delta) == NextPos(position, Integrate(delta), delta)

\* the position the "Move" step leaves: nextPos when it is free, else the old one
Move(nextPos) == IF ~wouldCollide(nextPos) THEN nextPos ELSE position

\* updatePlayerMovement(delta): the player state after the call.  Each local of the
\* code (velocity after integration, nextPos, the state after the floor check) is
\* bound once, in the order the code computes it.
updatePlayerMovement(delta) ==
    LET sprinting == SprintRequested
        floors ==
            { FloorCollision(clampCharacterPosition(moved.position), moved.velocity, isGrounded) :
                moved \in { [velocity |-> v2, position |-> Move(NextPos(position, v2, delta))] :
                              v2 \in {Integrate(delta)} } }
    IN  The({ [position    |-> floor.position,
               velocity    |-> floor.velocity,
               isGrounded  |-> floor.isGrounded,
               isSprinting |-> sprinting,
               rotationY   |-> Rotate(rotationY, floor.velocity, delta),
               currentAction |->
                   The({ IF next # "none" /\ next # currentAction THEN next ELSE currentAction :
                         next \in {NextAction(floor.isGrounded, HSpeed(floor.velocity),
                                              sprinting)} })] :
              floor \in floors })

(***************************************************************************)
(* Camera rig: updateCamera                                                *)
(***************************************************************************)
PitchUnclamped(p) == p
PitchClamp(p) == Clamp(p, PITCH_MIN, PITCH_MAX)

\* updateCamera(delta): yaw and pitch after the call
updateCamera(delta) ==
    [yaw   |-> Lerp(yaw, targetYaw, CAMERA_SMOOTHING * delta),
     pitch |-> PitchClamp(Lerp(pitch, targetPitch, CAMERA_SMOOTHING * delta))]

(***************************************************************************)
(* Mission proximity detector                                              *)
(***************************************************************************)
\* createMissionStop(x, y, z, missionKey)
MissionStop(x, y, z, key) == [x |-> x, y |-> y, z |-> z, baseY |-> y, key |-> key]

\* the four createMissionStop calls
MissionList ==
    << MissionStop(0, 0, 130000, "events"),
       MissionStop(-10000, 0, 140000, "sponsors"),
       MissionStop(-18000, 0, 130000, "glimpses"),
       MissionStop(-10000, 0, 120000, "about") >>

\* stop.group.position.distanceTo(p) < r.  The squares are taken only when every
\* axis is within r, which keeps the sum a 32-bit integer; beyond r on one axis
\* the distance is at least r.
DistanceLess(stop, p, r) ==
    /\ Abs(stop.x - p.x) < r
    /\ Abs(stop.y - p.y) < r
    /\ Abs(stop.z - p.z) < r
    /\   (stop.x - p.x) * (stop.x - p.x) + (stop.y - p.y) * (stop.y - p.y)
       + (stop.z - p.z) * (stop.z - p.z) < r * r

RECURSIVE ProximityScan(_, _, _)
ProximityScan(stops, p, i) ==
    IF i > Len(stops) THEN 0
    ELSE IF DistanceLess(stops[i], p, INTERACT_DISTANCE) THEN i
    ELSE ProximityScan(stops, p, i + 1)

RECURSIVE ProximityScanLast(_, _, _)
ProximityScanLast(stops, p, i) ==
    IF i > Len(stops) THEN 0
    ELSE LET later == ProximityScanLast(stops, p, i + 1)
         IN  IF later # 0 THEN later
             ELSE IF DistanceLess(stops[i], p, INTERACT_DISTANCE) THEN i ELSE 0

\* checkMissionProximity(): activeMission after the call
ProximityLast(stops, p) == ProximityScanLast(stops, p, 1)
ProximityStale(stops, p) ==
    IF ProximityScan(stops, p, 1) = 0 THEN activeMission ELSE ProximityScan(stops, p, 1)
checkMissionProximity(stops, p) == ProximityScan(stops, p, 1)

\* ms.group.position.y = ms.baseY + Math.sin(t + idx * 0.5) * 0.35
FloatStops(stops, t) ==
    [i \in 1..Len(stops) |->
        [stops[i] EXCEPT !.y = stops[i].baseY + TDiv(Sin(t + (i - 1) * 500) * 350, 1000)]]

(***************************************************************************)
(* The frame: animate                                                      *)
(***************************************************************************)
ClampDeltaNone(dt) == dt
ClampDelta(dt) == Min(dt, DELTA_MAX)

\* if (isFullMapOpen): the frame renders and returns
MapNeverShown == FALSE
MapShown == isFullMapOpen

\* one requestAnimationFrame callback; dt is what clock.getDelta() returns when the
\* frame is processed and t = performance.now() * 0.003
animate(dt, t) ==
    IF MapShown
    THEN UNCHANGED <<playerVars, inputVars, cameraVars, lookVars, worldVars, activeMission,
                     clipVars, startVars, isFullMapOpen, cameraDist, clockVars, twin, uiVars, qualityVars>>
    ELSE \E delta \in {ClampDelta(dt)} :
         \E player \in {updatePlayerMovement(delta)}, cam \in {updateCamera(delta)} :
            /\ position'      = player.position
            /\ velocity'      = player.velocity
            /\ isGrounded'    = player.isGrounded
            /\ isSprinting'   = player.isSprinting
            /\ rotationY'     = player.rotationY
            /\ currentAction' = player.currentAction
            /\ yaw'           = cam.yaw
            /\ pitch'         = cam.pitch
            /\ activeMission' = checkMissionProximity(missionStops, player.position)
            /\ missionStops'  = FloatStops(missionStops, t)
            /\ elapsed'       = 0
            /\ lastDelta'     = delta
            /\ UNCHANGED <<inputVars, targetYaw, targetPitch, lookVars, blockedBoxes, actions,
                           startVars, isFullMapOpen, cameraDist, twin, uiVars, qualityVars>>

(***************************************************************************)
(* Input handlers                                                          *)
(***************************************************************************)
\* window keydown for a movement key or shift
KeyDown(k) ==
    /\ keys' = keys \cup {k}
    /\ UNCHANGED <<playerVars, joyActive, joyVector, cameraVars, lookVars, worldVars,
                   activeMission, clipVars, frame>>
    /\ UNCHANGED shellVars

\* window keydown with e.code === 'Space'
JumpAlways == TRUE
JumpAllowed == isGrounded
KeyDownSpace ==
    /\ IF JumpAllowed
       THEN /\ velocity' = [velocity EXCEPT !.y = JUMP_FORCE]
            /\ isGrounded' = FALSE
       ELSE UNCHANGED <<velocity, isGrounded>>
    /\ UNCHANGED <<position, isSprinting, rotationY, inputVars, cameraVars, lookVars,
                   worldVars, activeMission, clipVars, frame>>
    /\ UNCHANGED shellVars

\* window keyup
KeyUp(k) ==
    /\ k \in keys
    /\ keys' = keys \ {k}
    /\ UNCHANGED <<playerVars, joyActive, joyVector, cameraVars, lookVars, worldVars,
                   activeMission, clipVars, frame>>
    /\ UNCHANGED shellVars

\* joystick touchstart
JoyStart ==
    /\ joyActive' = TRUE
    /\ UNCHANGED <<playerVars, keys, joyVector, cameraVars, lookVars, worldVars,
                   activeMission, clipVars, frame>>
    /\ UNCHANGED shellVars

\* Vector2.clampLength(0, max) of (dx, dy) pixels, in hundredths of a pixel:
\* divideScalar(length || 1).multiplyScalar(Math.max(0, Math.min(max, length)))
ClampLengthNone(dx, dy, max) == [x |-> dx * 100, y |-> dy * 100]
ClampLength(dx, dy, max) ==
    LET length == Sqrt(dx * dx * 10000 + dy * dy * 10000)
        by     == IF length = 0 THEN 1 ELSE length
        to     == Max(0, Min(max * 100, length))
    IN  [x |-> TDiv(TDiv(dx * 100000, by) * to, 1000),
         y |-> TDiv(TDiv(dy * 100000, by) * to, 1000)]

\* joystick touchmove; dx = t.clientX - joyStart.x, dy = t.clientY - joyStart.y
JoyMove(dx, dy) ==
    /\ joyActive
    /\ \E joyDelta \in {ClampLength(dx, dy, JOY_MAX)} :
          joyVector' = [x |-> TDiv(joyDelta.x * 10, JOY_MAX), y |-> TDiv(joyDelta.y * 10, JOY_MAX)]
    /\ UNCHANGED <<playerVars, keys, joyActive, cameraVars, lookVars, worldVars,
                   activeMission, clipVars, frame>>
    /\ UNCHANGED shellVars

\* joystick touchend
JoyEnd ==
    /\ joyActive
    /\ joyActive' = FALSE
    /\ joyVector' = [x |-> 0, y |-> 0]
    /\ UNCHANGED <<playerVars, keys, cameraVars, lookVars, worldVars, activeMission,
                   clipVars, frame>>
    /\ UNCHANGED shellVars

\* changeCharacterPosition(btnId): the position set for the button
TeleportTarget(btnId) ==
    CASE btnId = "eventBtn"   -> Vec(0, 0, 130000)
      [] btnId = "sponsorBtn" -> Vec(-10000, 0, 140000)
      [] btnId = "glimpseBtn" -> Vec(-18000, 0, 130000)
      [] btnId = "aboutBtn"   -> Vec(-10000, 0, 120000)
      [] OTHER                -> position

changeCharacterPosition(btnId) ==
    /\ position' = TeleportTarget(btnId)
    /\ pointerLocked' = FALSE
    /\ UNCHANGED <<velocity, isGrounded, isSprinting, rotationY, inputVars, cameraVars,
                   touchLook, worldVars, activeMission, clipVars, frame>>
    /\ UNCHANGED shellVars

\* tryStartGame() when assetsLoaded and userReady have the given values: the loading
\* screen is hidden and the frame loop started when both hold.  The call of animate()
\* it makes is the first frame of the loop.
TryStartWhenReady(loaded, ready) ==
    /\ loadingShown' = (loadingShown /\ ~ready)
    /\ loops' = IF loadingShown /\ ready THEN loops + 1 ELSE loops
TryStartAgain(loaded, ready) ==
    /\ loadingShown' = (loadingShown /\ ~(loaded /\ ready))
    /\ loops' = IF loaded /\ ready THEN loops + 1 ELSE loops
tryStartGame(loaded, ready) ==
    /\ loadingShown' = (loadingShown /\ ~(loaded /\ ready))
    /\ loops' = IF loaded /\ ready /\ loadingShown THEN loops + 1 ELSE loops

\* a click on the canvas: the document click listener sets userReady and tries to
\* start, the renderer.domElement listener requests the pointer lock
ClickCanvas ==
    /\ ~pointerLocked
    /\ pointerLocked' = TRUE
    /\ userReady' = TRUE
    /\ tryStartGame(assetsLoaded, TRUE)
    /\ UNCHANGED <<playerVars, inputVars, cameraVars, touchLook, worldVars, activeMission,
                   clipVars, frame>>
    /\ UNCHANGED <<assetsLoaded, worldLoaded, charLoaded, isFullMapOpen, cameraDist, clockVars,
                   twinVars, uiVars, qualityVars>>

\* the browser releases the pointer lock (Escape)
PointerUnlock ==
    /\ pointerLocked
    /\ pointerLocked' = FALSE
    /\ UNCHANGED <<playerVars, inputVars, cameraVars, touchLook, worldVars, activeMission,
                   clipVars, frame>>
    /\ UNCHANGED shellVars

\* document mousemove with e.movementX, e.movementY in pixels
MouseMove(movementX, movementY) ==
    /\ pointerLocked
    /\ targetYaw' = targetYaw - TDiv(movementX * MOUSE_SENSITIVITY, 10)
    /\ targetPitch' = Clamp(targetPitch - TDiv(movementY * MOUSE_SENSITIVITY, 10), -300, 1300)
    /\ UNCHANGED <<playerVars, inputVars, yaw, pitch, lookVars, worldVars, activeMission,
                   clipVars, frame>>
    /\ UNCHANGED shellVars

\* a touchstart outside the joystick and the navbar: the document listener sets
\* userReady and tries to start, the window listener starts the touch look
TouchStart ==
    /\ touchLook' = TRUE
    /\ userReady' = TRUE
    /\ tryStartGame(assetsLoaded, TRUE)
    /\ UNCHANGED <<playerVars, inputVars, cameraVars, pointerLocked, worldVars,
                   activeMission, clipVars, frame>>
    /\ UNCHANGED <<assetsLoaded, worldLoaded, charLoaded, isFullMapOpen, cameraDist, clockVars,
                   twinVars, uiVars, qualityVars>>

\* window touchmove; dx, dy are the pixels moved since lastTouch
TouchMove(dx, dy) ==
    /\ touchLook
    /\ targetYaw' = targetYaw - dx * 6
    /\ targetPitch' = targetPitch - dy * 4
    /\ UNCHANGED <<playerVars, inputVars, yaw, pitch, lookVars, worldVars, activeMission,
                   clipVars, frame>>
    /\ UNCHANGED shellVars

\* window touchend
TouchEnd ==
    /\ touchLook
    /\ touchLook' = FALSE
    /\ UNCHANGED <<playerVars, inputVars, cameraVars, pointerLocked, worldVars,
                   activeMission, clipVars, frame>>
    /\ UNCHANGED shellVars

\* document keydown with e.key === 'Enter'
PressEnter ==
    /\ userReady' = TRUE
    /\ tryStartGame(assetsLoaded, TRUE)
    /\ UNCHANGED <<playerVars, inputVars, cameraVars, lookVars, worldVars, activeMission,
                   clipVars, frame>>
    /\ UNCHANGED <<assetsLoaded, worldLoaded, charLoaded, isFullMapOpen, cameraDist, clockVars,
                   twinVars, uiVars, qualityVars>>

\* the callback of loader.load('public/models/mainland.glb'): a box is pushed for each
\* mesh of the asset whose name is in BLOCKED_NAMES, in traversal order
RegisterAllMeshes(meshes) == meshes
RegisterColliders(meshes) ==
    SelectSeq(meshes, LAMBDA o : o.name \in BLOCKED_NAMES)
WorldLoaded(meshes) ==
    /\ worldLoaded = "pending"
    /\ worldLoaded' = "loaded"
    /\ blockedBoxes' = blockedBoxes \o RegisterColliders(meshes)
    /\ UNCHANGED <<playerVars, inputVars, cameraVars, lookVars, missionStops, activeMission,
                   clipVars, frame>>
    /\ UNCHANGED <<assetsLoaded, userReady, loadingShown, loops, charLoaded, isFullMapOpen,
                   cameraDist, clockVars, twinVars, uiVars, qualityVars>>

\* the callback of loader.load('public/models/finalmainmodel.glb'): the clips of the
\* character are stored in actions and the idle clip is played
CharacterLoaded(clips) ==
    /\ charLoaded = "pending"
    /\ charLoaded' = "loaded"
    /\ actions' = clips
    /\ currentAction' = IF "idle" \in clips THEN "idle" ELSE "none"
    /\ UNCHANGED <<playerVars, inputVars, cameraVars, lookVars, worldVars, activeMission,
                   frame>>
    /\ UNCHANGED <<assetsLoaded, userReady, loadingShown, loops, worldLoaded, isFullMapOpen,
                   cameraDist, clockVars, twinVars, uiVars, qualityVars>>

\* loadingManager.onLoad: the manager calls it when the loads it was given are done,
\* and again whenever a later load through it ends with none outstanding
ManagerOnLoad ==
    /\ worldLoaded = "loaded" /\ charLoaded = "loaded"
    /\ assetsLoaded' = TRUE
    /\ tryStartGame(TRUE, userReady)
    /\ UNCHANGED <<playerVars, inputVars, cameraVars, lookVars, worldVars, activeMission,
                   clipVars, frame>>
    /\ UNCHANGED <<userReady, worldLoaded, charLoaded, isFullMapOpen, cameraDist, clockVars,
                   twinVars, uiVars, qualityVars>>

\* document wheel with e.deltaY
WheelUnclamped(dist) == dist
WheelClamp(dist) == Clamp(dist, MIN_DIST, MAX_DIST)
Wheel(deltaY) ==
    /\ cameraDist' = WheelClamp(cameraDist + deltaY * 7)
    /\ UNCHANGED <<playerVars, inputVars, cameraVars, lookVars, worldVars, activeMission,
                   clipVars, frame>>
    /\ UNCHANGED <<startVars, isFullMapOpen, clockVars, twinVars, uiVars, qualityVars>>

\* click on the minimap: the full map opens and the pointer lock is released; the
\* click reaches the document listener, which sets userReady and tries to start
OpenMap ==
    /\ isFullMapOpen' = TRUE
    /\ pointerLocked' = FALSE
    /\ userReady' = TRUE
    /\ tryStartGame(assetsLoaded, TRUE)
    /\ UNCHANGED <<playerVars, inputVars, cameraVars, touchLook, worldVars, activeMission,
                   clipVars, frame>>
    /\ UNCHANGED <<assetsLoaded, worldLoaded, charLoaded, cameraDist, clockVars, twinVars, uiVars, qualityVars>>

\* click on closeMapBtn: the full map closes; e.stopPropagation() keeps the click
\* from the document listener
CloseMap ==
    /\ isFullMapOpen' = FALSE
    /\ UNCHANGED <<playerVars, inputVars, cameraVars, lookVars, worldVars, activeMission,
                   clipVars, frame>>
    /\ UNCHANGED <<startVars, cameraDist, clockVars, twinVars, uiVars, qualityVars>>

\* wall-clock time passes: the next clock.getDelta() returns ms more
Wait(ms) ==
    /\ elapsed' = elapsed + ms
    /\ UNCHANGED <<playerVars, inputVars, cameraVars, lookVars, worldVars, activeMission,
                   clipVars, frame>>
    /\ UNCHANGED <<startVars, isFullMapOpen, cameraDist, lastDelta, twinVars, uiVars, qualityVars>>

(***************************************************************************)
(* Mission popup and gallery                                               *)
(***************************************************************************)
(***************************************************************************)
(* Dynamic quality: the 3-second check and applyQualitySettings.           *)
(***************************************************************************)
QualityLevels == << "low", "medium", "high" >>

\* enableCSM(): nothing when an instance exists or QUALITY is not "high"
enableCSM(instance, quality) ==
    IF instance # "null" \/ quality # "high" THEN instance ELSE "CSM"

\* disableCSM(): dispose and forget the instance, if there is one
DisableCsmKeep(instance) == instance
disableCSM(instance) ==
    IF instance = "null" THEN instance ELSE "null"

\* applyQualitySettings() with QUALITY = quality
applyQualitySettings(quality) ==
    /\ shadowMapEnabled' = CASE quality = "low"    -> FALSE
                             [] quality = "medium" -> FALSE
                             [] quality = "high"   -> TRUE
                             [] OTHER              -> shadowMapEnabled
    /\ csm' = CASE quality = "low"    -> disableCSM(csm)
                [] quality = "medium" -> disableCSM(csm)
                [] quality = "high"   -> enableCSM(csm, quality)
                [] OTHER              -> csm

\* the two if / else-if ladders of the check
StepDownToLow(quality) == "low"
StepDown(quality) ==
    IF quality = "high" THEN "medium"
    ELSE IF quality = "medium" THEN "low"
    ELSE quality

StepUp(quality) ==
    IF quality = "low" THEN "medium"
    ELSE IF quality = "medium" THEN "high"
    ELSE quality

\* the setInterval(..., 3000) callback, with the avgFPS it reads
QualityCheck(avgFPS) ==
    /\ IF qualityLocked
       THEN UNCHANGED qualityVars
       ELSE IF avgFPS < 28
       THEN \E quality \in {StepDown(QUALITY)} :
               /\ QUALITY' = quality
               /\ applyQualitySettings(quality)
               /\ UNCHANGED qualityLocked
       ELSE IF avgFPS > 55
       THEN \E quality \in {StepUp(QUALITY)} :
               /\ QUALITY' = quality
               /\ applyQualitySettings(quality)
               /\ UNCHANGED qualityLocked
       ELSE /\ qualityLocked' = (avgFPS > 45 /\ avgFPS < 55)
            /\ UNCHANGED <<QUALITY, csm, shadowMapEnabled>>
    /\ UNCHANGED <<playerVars, inputVars, cameraVars, lookVars, worldVars, activeMission,
                   clipVars, frame>>
    /\ UNCHANGED <<startVars, isFullMapOpen, cameraDist, clockVars, twinVars, uiVars>>

\* the value of x % 0: every later galleryIndex computed from it is NaN again
NaN == -999

missionGalleryData ==
    [events   |-> << "public/models/1.jpg", "public/models/2.jpg", "public/models/3.jpg",
                     "4.jpg" >>,
     glimpses |-> << "public/models/A3.jpg", "public/models/Logo_Cubeten2.png" >>,
     sponsors |-> << >>,
     about    |-> << >>]

\* setupGallery(missionKey)
setupGallery(missionKey) ==
    IF Len(missionGalleryData[missionKey]) > 0
    THEN /\ activeGallery' = missionGalleryData[missionKey]
         /\ galleryIndex' = 0
    ELSE UNCHANGED <<activeGallery, galleryIndex>>

\* openMissionPopup()
openMissionPopup ==
    IF activeMission = 0
    THEN UNCHANGED <<pointerLocked, uiVars>>
    ELSE \E missionKey \in {missionStops[activeMission].key} :
            /\ pointerLocked' = FALSE
            /\ popupKey' = missionKey
            /\ setupGallery(missionKey)

\* window keydown with e.key 'e' or 'E'
PressE ==
    /\ openMissionPopup
    /\ UNCHANGED <<playerVars, inputVars, cameraVars, touchLook, worldVars, activeMission,
                   clipVars, frame>>
    /\ UNCHANGED <<startVars, isFullMapOpen, cameraDist, clockVars, twinVars, qualityVars>>

\* click on interactPrompt; the click reaches the document listener, which sets
\* userReady and tries to start
TapPrompt ==
    /\ openMissionPopup
    /\ userReady' = TRUE
    /\ tryStartGame(assetsLoaded, TRUE)
    /\ UNCHANGED <<playerVars, inputVars, cameraVars, touchLook, worldVars, activeMission,
                   clipVars, frame>>
    /\ UNCHANGED <<assetsLoaded, worldLoaded, charLoaded, isFullMapOpen, cameraDist,
                   clockVars, twinVars, qualityVars>>

\* closeMissionPopup(): click on closePopup or on the overlay itself
closeMissionPopup ==
    /\ popupKey' = "none"
    /\ UNCHANGED <<playerVars, inputVars, cameraVars, lookVars, worldVars, activeMission,
                   clipVars, frame>>
    /\ UNCHANGED <<startVars, isFullMapOpen, cameraDist, clockVars, twinVars, qualityVars,
                   activeGallery, galleryIndex>>

\* (galleryIndex + step + activeGallery.length) % activeGallery.length in JavaScript
GalleryStep(index, step, length) ==
    IF index = NaN \/ length = 0 THEN NaN
    ELSE JsMod(index + step, length)

\* click on galleryPrev
GalleryPrev ==
    /\ galleryIndex' = GalleryStep(galleryIndex, Len(activeGallery) - 1, Len(activeGallery))
    /\ UNCHANGED <<playerVars, inputVars, cameraVars, lookVars, worldVars, activeMission,
                   clipVars, frame>>
    /\ UNCHANGED <<startVars, isFullMapOpen, cameraDist, clockVars, twinVars, qualityVars,
                   popupKey, activeGallery>>

\* click on galleryNext
GalleryNext ==
    /\ galleryIndex' = GalleryStep(galleryIndex, 1, Len(activeGallery))
    /\ UNCHANGED <<playerVars, inputVars, cameraVars, lookVars, worldVars, activeMission,
                   clipVars, frame>>
    /\ UNCHANGED <<startVars, isFullMapOpen, cameraDist, clockVars, twinVars, qualityVars,
                   popupKey, activeGallery>>

(***************************************************************************)
(* Worlds and starting scenes                                              *)
(***************************************************************************)
ColliderBox(name, lo, hi) == [min |-> lo, max |-> hi, name |-> name]

\* a collider standing on the ground, a collider whose underside is 1.9 above it
GroundBox == ColliderBox("Object_35", Vec(-3000, 0, 2000), Vec(3000, 4000, 6000))
RaisedBox == ColliderBox("Object_43", Vec(-3000, 1900, 2000), Vec(3000, 6000, 6000))

AllClips == {"idle", "running", "sprint", "jump"}

Scene(p, v, grounded, boxes, held, joy) ==
    [position |-> p, velocity |-> v, isGrounded |-> grounded, blockedBoxes |-> boxes,
     keys |-> held, joyVector |-> joy]

JoyRest == [x |-> 0, y |-> 0]
\* States of the running program from which the frames of a check start:
\*   the state after construction, with and without a collider ahead;
\*   sprinting forward at the cap (w and shift were held for eight frames);
\*   walking diagonally into the north-east map corner with a held, and into the
\*     south-west corner with s and d held;
\*   standing next to a collider, walking into it;
\*   coming down from a jump next to a collider;
\*   walking backward with the joystick pulled down 39 of its 40 pixels.
Scenes ==
    { Scene(Vec(0, 0, 0), Vec(0, 0, 0), TRUE, << >>, {}, JoyRest),
      Scene(Vec(0, 0, 0), Vec(0, 0, 0), TRUE, << GroundBox >>, {}, JoyRest),
      Scene(Vec(0, 0, -20000), Vec(0, 0, 15000), TRUE, << >>, {}, JoyRest),
      Scene(Vec(179900, 0, 239900), Vec(5656, 0, 5656), TRUE, << >>, {"a"}, JoyRest),
      Scene(Vec(-144900, 0, -79900), Vec(-5656, 0, -5656), TRUE, << >>, {"s", "d"}, JoyRest),
      Scene(Vec(0, 0, 1300), Vec(0, 0, 8000), TRUE, << GroundBox >>, {}, JoyRest),
      Scene(Vec(0, 250, 1300), Vec(0, -11000, 8000), FALSE, << GroundBox >>, {}, JoyRest),
      Scene(Vec(0, 250, 1300), Vec(0, -11000, 8000), FALSE, << RaisedBox >>, {}, JoyRest),
      Scene(Vec(0, 0, -20000), Vec(0, 0, -8000), TRUE, << >>, {}, [x |-> 0, y |-> 975]) }

(***************************************************************************)
(* Bounds of the model                                                     *)
(***************************************************************************)
MaxFrames == 2

\* the clamped frame deltas tried: a 120 Hz frame and the clamp value
Deltas == {DELTA_MAX \div 4, DELTA_MAX}

\* the keys pressed and released in a check; a scene may hold others down throughout
MoveKeys == {"w", "shift"}
NavButtons == {"aboutBtn"}

(***************************************************************************)
(* Spec: the player under keyboard input, jumps, teleports and frames      *)
(***************************************************************************)
\* no second run is followed
NoTwin == << >>

\* the game is running: both assets are loaded, the user has started it, the full map
\* is closed and the camera is at its initial distance
InitGame ==
    /\ assetsLoaded = TRUE
    /\ userReady = TRUE
    /\ loadingShown = FALSE
    /\ loops = 1
    /\ worldLoaded = "loaded"
    /\ charLoaded = "loaded"
    /\ isFullMapOpen = FALSE
    /\ cameraDist = 2800

\* clock.getDelta() has just been called
InitClock ==
    /\ elapsed = 0
    /\ lastDelta = 0

\* QUALITY "medium", unlocked, no cascades; applyQualitySettings() has run once
InitQuality ==
    /\ QUALITY = "medium"
    /\ qualityLocked = FALSE
    /\ csm = "null"
    /\ shadowMapEnabled = FALSE

\* the popup is hidden and no gallery has been set up
InitUi ==
    /\ popupKey = "none"
    /\ activeGallery = << >>
    /\ galleryIndex = 0

InitShell ==
    /\ InitGame
    /\ InitClock
    /\ InitUi
    /\ InitQuality
    /\ twin = NoTwin
    /\ turn = "first"

InitCommon ==
    /\ InitShell
    /\ isSprinting = FALSE
    /\ rotationY = 0
    /\ yaw = Pi
    /\ pitch = 350
    /\ targetYaw = Pi
    /\ targetPitch = 350
    /\ pointerLocked = FALSE
    /\ touchLook = FALSE
    /\ missionStops = MissionList
    /\ activeMission = 0
    /\ frame = 0

Init ==
    /\ InitCommon
    /\ \E sc \in Scenes :
          /\ position = sc.position
          /\ velocity = sc.velocity
          /\ isGrounded = sc.isGrounded
          /\ blockedBoxes = sc.blockedBoxes
          /\ keys = sc.keys
          /\ joyVector = sc.joyVector
          /\ joyActive = (sc.joyVector # JoyRest)
    /\ actions = AllClips
    /\ currentAction = "idle"

Frame ==
    /\ ~loadingShown
    /\ frame < MaxFrames
    /\ frame' = frame + 1
    /\ \E delta \in Deltas : animate(delta, 0)
    /\ UNCHANGED turn
PressKey == \E k \in MoveKeys : KeyDown(k)
ReleaseKey == \E k \in MoveKeys : KeyUp(k)
PressSpace == KeyDownSpace
Teleport == \E b \in NavButtons : changeCharacterPosition(b)

Next == Frame \/ PressKey \/ ReleaseKey \/ PressSpace \/ JoyEnd \/ Teleport

Spec == Init /\ [][Next]_vars

(***************************************************************************)
(* SpecCoast: frames without movement intent, until the player rests       *)
(***************************************************************************)
\* horizontal velocities a walking player has, in every quadrant
CoastVelocities ==
    { [x |-> 2500, z |-> 0], [x |-> -1800, z |-> 1700], [x |-> 0, z |-> -2400],
      [x |-> -1500, z |-> -1500], [x |-> 900, z |-> -2000] }

\* on the ground, or coming down from a jump
CoastHeights ==
    { [y |-> 0, vy |-> 0, isGrounded |-> TRUE], [y |-> 250, vy |-> -11000, isGrounded |-> FALSE] }

\* inputs without intent: nothing held, shift alone, w against s; the joystick at
\* rest or held inside its dead zone
CoastKeys == { {}, {"shift"}, {"w", "s"} }
CoastJoy == { JoyRest, [x |-> 60, y |-> 60] }

InitCoast ==
    /\ InitCommon
    /\ \E v \in CoastVelocities, h \in CoastHeights :
          /\ position = Vec(0, h.y, 0)
          /\ velocity = Vec(v.x, h.vy, v.z)
          /\ isGrounded = h.isGrounded
    /\ keys \in CoastKeys
    /\ joyVector \in CoastJoy
    /\ joyActive = (joyVector # JoyRest)
    /\ blockedBoxes = << >>
    /\ actions = AllClips
    /\ currentAction = "idle"

CoastFrame ==
    /\ ~loadingShown
    /\ ~HasIntent
    /\ \E delta \in Deltas : animate(delta, 0)
    /\ UNCHANGED <<frame, turn>>

\* requestAnimationFrame keeps scheduling frames
SpecCoast == InitCoast /\ [][CoastFrame]_vars /\ WF_vars(CoastFrame)

(***************************************************************************)
(* SpecFall: an airborne player, followed frame by frame until it lands     *)
(***************************************************************************)
\* a collider lying on the ground, 1.0 high
FallBox == ColliderBox("Object_47", Vec(-2000, 0, -2000), Vec(2000, 1000, 2000))

\* the player in the air beside a tall collider, moving toward it with w held; above
\* the low collider with nothing held; and in free air just after the jump impulse
FallScenes ==
    { Scene(Vec(0, 300, 1300), Vec(0, 0, 8000), FALSE, << GroundBox >>, {"w"}, JoyRest),
      Scene(Vec(0, 1200, 0), Vec(0, 0, 0), FALSE, << FallBox >>, {}, JoyRest),
      Scene(Vec(0, 0, 0), Vec(0, 12000, 0), FALSE, << >>, {}, JoyRest) }

\* frame times at 40 and at 30 frames per second
FallDeltas == {DELTA_MAX - 8, DELTA_MAX}

InitFall ==
    /\ InitCommon
    /\ \E sc \in FallScenes :
          /\ position = sc.position
          /\ velocity = sc.velocity
          /\ isGrounded = sc.isGrounded
          /\ blockedBoxes = sc.blockedBoxes
          /\ keys = sc.keys
          /\ joyVector = sc.joyVector
          /\ joyActive = FALSE
    /\ actions = AllClips
    /\ currentAction = "jump"

\* a frame of the airborne player
FallFrame ==
    /\ ~loadingShown
    /\ ~isGrounded
    /\ \E delta \in FallDeltas : animate(delta, 0)
    /\ UNCHANGED <<frame, turn>>

\* requestAnimationFrame keeps scheduling frames
SpecFall == InitFall /\ [][FallFrame]_vars /\ WF_vars(FallFrame)

(***************************************************************************)
(* SpecCamera: mouse and touch look, and frames                            *)
(***************************************************************************)
\* targetYaw and targetPitch are followed this far from their initial values
MaxLook == 9000

\* pixels moved by one mouse event and by one touch event
MouseSteps == {-800, 800}
TouchSteps == {-2000, 2000}

InitCamera ==
    /\ InitCommon
    /\ position = Vec(0, 0, 0)
    /\ velocity = Vec(0, 0, 0)
    /\ isGrounded = TRUE
    /\ keys = {}
    /\ joyVector = JoyRest
    /\ joyActive = FALSE
    /\ blockedBoxes = << >>
    /\ actions = AllClips
    /\ currentAction = "idle"

LookBounded == Abs(targetPitch' - 350) <= MaxLook /\ Abs(targetYaw' - Pi) <= MaxLook

MouseLook == \E my \in MouseSteps : MouseMove(0, my) /\ LookBounded
TouchLookMove == \E dy \in TouchSteps : TouchMove(0, dy) /\ LookBounded

NextCamera ==
    \/ Frame \/ ClickCanvas \/ PointerUnlock \/ MouseLook
    \/ TouchStart \/ TouchLookMove \/ TouchEnd

SpecCamera == InitCamera /\ [][NextCamera]_vars

(***************************************************************************)
(* SpecProximity: the mission proximity detector                           *)
(***************************************************************************)
\* the list of the program, and a list whose first two markers are 3 apart
CloseList ==
    << MissionStop(0, 0, 130000, "events"),
       MissionStop(3000, 0, 130000, "sponsors"),
       MissionStop(-18000, 0, 130000, "glimpses"),
       MissionStop(-10000, 0, 120000, "about") >>
MissionLists == {MissionList, CloseList}

\* the player far from every marker; walking away from the first marker from 3.7;
\* standing 3.99 from it; standing between the first two markers of CloseList
ProximityScenes ==
    { Scene(Vec(0, 0, 0), Vec(0, 0, 0), TRUE, << >>, {}, JoyRest),
      Scene(Vec(0, 0, 126300), Vec(0, 0, -8000), TRUE, << >>, {"s"}, JoyRest),
      Scene(Vec(0, 0, 126010), Vec(0, 0, 0), TRUE, << >>, {}, JoyRest),
      Scene(Vec(2000, 0, 130000), Vec(0, 0, 0), TRUE, << >>, {}, JoyRest) }

AllNavButtons == {"eventBtn", "sponsorBtn", "glimpseBtn", "aboutBtn"}
\* t = performance.now() * 0.003 of a frame
FloatPhases == {0, HalfPi}

InitProximity ==
    /\ InitShell
    /\ isSprinting = FALSE /\ rotationY = 0
    /\ yaw = Pi /\ pitch = 350 /\ targetYaw = Pi /\ targetPitch = 350
    /\ pointerLocked = FALSE /\ touchLook = FALSE
    /\ activeMission = 0 /\ frame = 0
    /\ missionStops \in MissionLists
    /\ \E sc \in ProximityScenes :
          /\ position = sc.position
          /\ velocity = sc.velocity
          /\ isGrounded = sc.isGrounded
          /\ blockedBoxes = sc.blockedBoxes
          /\ keys = sc.keys
          /\ joyVector = sc.joyVector
          /\ joyActive = FALSE
    /\ actions = AllClips
    /\ currentAction = "idle"

FloatingFrame ==
    /\ ~loadingShown
    /\ frame < MaxFrames
    /\ frame' = frame + 1
    /\ \E delta \in Deltas, t \in FloatPhases : animate(delta, t)
    /\ UNCHANGED turn
TeleportAny == \E b \in AllNavButtons : changeCharacterPosition(b)

NextProximity == FloatingFrame \/ TeleportAny \/ PressSpace

SpecProximity == InitProximity /\ [][NextProximity]_vars

(***************************************************************************)
(* SpecPopup: frames, teleports, the full map and the mission popup         *)
(***************************************************************************)
NextPopup ==
    \/ FloatingFrame \/ TeleportAny
    \/ OpenMap \/ CloseMap
    \/ PressE \/ TapPrompt \/ closeMissionPopup

SpecPopup == InitProximity /\ [][NextPopup]_vars

\* the gallery arrows against the popups that set the gallery up
NextGallery ==
    \/ FloatingFrame \/ TeleportAny \/ PressE \/ closeMissionPopup
    \/ GalleryPrev \/ GalleryNext

SpecGallery == InitProximity /\ [][NextGallery]_vars

(***************************************************************************)
(* SpecCollide: the collision oracle against colliders around the player   *)
(***************************************************************************)
\* colliders one unit wide whose faces lie on, or one thousandth off, the faces of
\* the player box of a player at the origin
ProbeBoxes ==
    { ColliderBox("Object_15", Vec(x0, y0, z0), Vec(x0 + 1000, y0 + 1000, z0 + 1000)) :
        x0 \in {-1601, -1600, 600, 601}, y0 \in {-1001, -1000, 2000, 2001},
        z0 \in {-1601, -1600, 600, 601} }
FarBox == ColliderBox("Object_79", Vec(50000, 0, 50000), Vec(60000, 4000, 60000))

\* blockedBoxes: empty, one collider, or a far collider followed by a near one
ProbeBoxLists ==
    {<< >>} \cup {<<b>> : b \in ProbeBoxes} \cup {<<FarBox, b>> : b \in ProbeBoxes}

InitCollide ==
    /\ InitCommon
    /\ position = Vec(0, 0, 0)
    /\ velocity \in {Vec(0, 0, 0), Vec(0, 0, 8000)}
    /\ isGrounded = TRUE
    /\ blockedBoxes \in ProbeBoxLists
    /\ keys = {}
    /\ joyVector = JoyRest
    /\ joyActive = FALSE
    /\ actions = AllClips
    /\ currentAction = "idle"

NextCollide == Frame \/ PressSpace

SpecCollide == InitCollide /\ [][NextCollide]_vars

(***************************************************************************)
(* SpecStart: the page from construction, through loading, to the frames   *)
(***************************************************************************)
\* a mesh of the world asset with the box Box3().setFromObject gives it
Mesh(name, lo, hi) == ColliderBox(name, lo, hi)

\* world assets: one with two blocked meshes around a ground plane, one with no
\* blocked mesh
WorldAssets ==
    { << Mesh("Object_35", Vec(-3000, 0, 2000), Vec(3000, 4000, 6000)),
         Mesh("Plane_1", Vec(-200000, 1900, -200000), Vec(200000, 2000, 300000)),
         Mesh("Object_43", Vec(-3000, 1900, -9000), Vec(3000, 6000, -6000)) >>,
      << Mesh("Plane_1", Vec(-200000, 1900, -200000), Vec(200000, 2000, 300000)) >> }

InitStart ==
    /\ position = Vec(0, 0, 0) /\ velocity = Vec(0, 0, 0)
    /\ isGrounded = TRUE /\ isSprinting = FALSE /\ rotationY = 0
    /\ keys = {} /\ joyActive = FALSE /\ joyVector = JoyRest
    /\ yaw = Pi /\ pitch = 350 /\ targetYaw = Pi /\ targetPitch = 350
    /\ pointerLocked = FALSE /\ touchLook = FALSE
    /\ blockedBoxes = << >>
    /\ missionStops = MissionList
    /\ activeMission = 0
    /\ actions = {} /\ currentAction = "none"
    /\ frame = 0
    /\ assetsLoaded = FALSE /\ userReady = FALSE /\ loadingShown = TRUE /\ loops = 0
    /\ worldLoaded = "pending" /\ charLoaded = "pending"
    /\ isFullMapOpen = FALSE
    /\ cameraDist = 2800
    /\ elapsed = 0 /\ lastDelta = 0
    /\ twin = NoTwin /\ turn = "first"
    /\ InitUi
    /\ InitQuality

LoadWorld == \E meshes \in WorldAssets : WorldLoaded(meshes)
LoadCharacter == CharacterLoaded(AllClips)

NextStart ==
    \/ LoadWorld \/ LoadCharacter \/ ManagerOnLoad
    \/ PressEnter \/ ClickCanvas \/ TouchStart \/ TouchEnd
    \/ PressKey \/ PressSpace
    \/ Frame

SpecStart == InitStart /\ [][NextStart]_vars

(***************************************************************************)
(* SpecTurn: the facing of the character against the heading of its motion  *)
(***************************************************************************)
\* character.rotation.y as earlier frames can have left it
TurnFacings == {-3000, -1500, 0, 1500, 3000}
\* coasting velocities heading 0, PI/2, -PI/2, and just either side of PI
TurnVelocities ==
    { Vec(0, 0, 8000), Vec(8000, 0, 0), Vec(-8000, 0, 0),
      Vec(900, 0, -8000), Vec(-900, 0, -8000) }

InitTurn ==
    /\ InitShell
    /\ position = Vec(0, 0, 0)
    /\ velocity \in TurnVelocities
    /\ isGrounded = TRUE /\ isSprinting = FALSE
    /\ rotationY \in TurnFacings
    /\ keys = {} /\ joyActive = FALSE /\ joyVector = JoyRest
    /\ yaw = Pi /\ pitch = 350 /\ targetYaw = Pi /\ targetPitch = 350
    /\ pointerLocked = FALSE /\ touchLook = FALSE
    /\ blockedBoxes = << >>
    /\ missionStops = MissionList
    /\ activeMission = 0
    /\ actions = AllClips /\ currentAction = "running"
    /\ frame = 0

SpecTurn == InitTurn /\ [][Frame]_vars

(***************************************************************************)
(* SpecShell: the frame loop with the clock, the full map and the wheel     *)
(***************************************************************************)
\* the longest time followed between two processed frames, in ms
MaxElapsed == 100
\* a frame period at 60 Hz, and a stall
WaitSteps == {16, 50}
\* e.deltaY of fast scrolls in and out, and of a wheel notch
WheelSteps == {-900, 150, 900}

\* the player stands at the origin with w held and the pointer locked, one frame
\* period after a frame that found nothing held
InitShellSpec ==
    /\ InitGame
    /\ InitUi
    /\ InitQuality
    /\ twin = NoTwin /\ turn = "first"
    /\ elapsed = 16 /\ lastDelta = 16
    /\ isSprinting = FALSE /\ rotationY = 0
    /\ yaw = Pi /\ pitch = 350 /\ targetYaw = Pi /\ targetPitch = 350
    /\ pointerLocked = TRUE /\ touchLook = FALSE
    /\ missionStops = MissionList /\ activeMission = 0
    /\ frame = 0
    /\ position = Vec(0, 0, 0) /\ velocity = Vec(0, 0, 0)
    /\ isGrounded = TRUE
    /\ blockedBoxes = << >>
    /\ keys = {"w"} /\ joyActive = FALSE /\ joyVector = JoyRest
    /\ actions = AllClips /\ currentAction = "idle"

\* a requestAnimationFrame callback; clock.getDelta() returns the time since the
\* call before, and is not called while the full map is open
ShellFrame ==
    /\ ~loadingShown
    /\ frame < MaxFrames
    /\ frame' = frame + 1
    /\ animate(elapsed, 0)
    /\ UNCHANGED turn
TimePasses == \E ms \in WaitSteps : elapsed + ms <= MaxElapsed /\ Wait(ms)
Scroll == \E deltaY \in WheelSteps : Wheel(deltaY)

NextShell == ShellFrame \/ TimePasses \/ OpenMap \/ CloseMap \/ Scroll

SpecShell == InitShellSpec /\ [][NextShell]_vars

(***************************************************************************)
(* The quality check against the wheel and the full map: the frame rates   *)
(* the check may read, on both sides of each threshold.                    *)
(***************************************************************************)
FpsValues == {0, 27, 28, 45, 50, 55, 56, 60}

QualityTick == \E avgFPS \in FpsValues : QualityCheck(avgFPS)

NextQuality == QualityTick \/ Scroll \/ OpenMap \/ CloseMap

SpecQuality == InitShellSpec /\ [][NextQuality]_vars

(***************************************************************************)
(* SpecJoy: every combination of w/a/s/d with the joystick                  *)
(***************************************************************************)
DirectionKeys == {"w", "a", "s", "d"}
\* finger offsets from the touch start, in pixels: beyond the 40 pixel ring, on it,
\* and inside the dead zone
JoyPixels == {-60, 3, 40}
\* frames followed after the joystick and the keys are set
MaxJoyFrames == 1

InitJoy ==
    /\ InitCommon
    /\ position = Vec(0, 0, 0) /\ velocity = Vec(0, 0, 0)
    /\ isGrounded = TRUE
    /\ blockedBoxes = << >>
    /\ keys \in SUBSET DirectionKeys
    /\ joyActive = FALSE /\ joyVector = JoyRest
    /\ actions = AllClips /\ currentAction = "idle"

JoyDrag == \E dx \in JoyPixels, dy \in JoyPixels : JoyMove(dx, dy)

JoyFrame == frame < MaxJoyFrames /\ Frame

NextJoy == JoyStart \/ JoyDrag \/ JoyEnd \/ JoyFrame

SpecJoy == InitJoy /\ [][NextJoy]_vars

(***************************************************************************)
(* SpecTwin: two runs of the program in lock step.  Both receive the same   *)
(* key events and the same delta in every frame; they start with the same   *)
(* position, velocity, isGrounded, yaw, pitch and camera targets, and with  *)
(* different values of everything else a frame reads or writes.             *)
(***************************************************************************)
\* the variables each run has for itself; keys, the joystick, the colliders and the
\* clips are the same in both runs
RunState ==
    [position |-> position, velocity |-> velocity, isGrounded |-> isGrounded,
     isSprinting |-> isSprinting, rotationY |-> rotationY,
     yaw |-> yaw, pitch |-> pitch, targetYaw |-> targetYaw, targetPitch |-> targetPitch,
     missionStops |-> missionStops, activeMission |-> activeMission,
     currentAction |-> currentAction, cameraDist |-> cameraDist, lastDelta |-> lastDelta]

\* what the second run starts with where it differs from the first
TwinHidden ==
    { [isSprinting |-> TRUE, rotationY |-> 1500, activeMission |-> 2,
       currentAction |-> "running", cameraDist |-> 5000, missionStops |-> CloseList],
      [isSprinting |-> FALSE, rotationY |-> -3000, activeMission |-> 0,
       currentAction |-> "sprinting", cameraDist |-> 8000, missionStops |-> MissionList] }

\* the player standing at the origin, walking next to a collider, and falling onto it
TwinScenes ==
    { Scene(Vec(0, 0, 0), Vec(0, 0, 0), TRUE, << GroundBox >>, {}, JoyRest),
      Scene(Vec(0, 0, 1300), Vec(0, 0, 8000), TRUE, << GroundBox >>, {"a"}, JoyRest),
      Scene(Vec(0, 250, 1300), Vec(0, -11000, 8000), FALSE, << RaisedBox >>, {}, JoyRest) }

InitTwin ==
    /\ InitGame
    /\ InitClock
    /\ isSprinting = FALSE /\ rotationY = 0
    /\ yaw = Pi /\ pitch = 350 /\ targetYaw = Pi - 400 /\ targetPitch = 700
    /\ pointerLocked = FALSE /\ touchLook = FALSE
    /\ missionStops = MissionList /\ activeMission = 0
    /\ frame = 0
    /\ actions = AllClips /\ currentAction = "idle"
    /\ \E sc \in TwinScenes :
          /\ position = sc.position
          /\ velocity = sc.velocity
          /\ isGrounded = sc.isGrounded
          /\ blockedBoxes = sc.blockedBoxes
          /\ keys = sc.keys
          /\ joyVector = sc.joyVector
          /\ joyActive = FALSE
    /\ turn = "first"
    /\ InitUi
    /\ InitQuality
    /\ \E h \in TwinHidden :
          twin = [RunState EXCEPT !.isSprinting = h.isSprinting, !.rotationY = h.rotationY,
                                  !.activeMission = h.activeMission,
                                  !.currentAction = h.currentAction,
                                  !.cameraDist = h.cameraDist,
                                  !.missionStops = h.missionStops]

\* the first run processes a frame at time 0
TwinFrameFirst ==
    /\ turn = "first"
    /\ frame < MaxFrames
    /\ frame' = frame
    /\ \E delta \in Deltas : animate(delta, 0)
    /\ turn' = "swap"

\* the runs change places
TwinSwap ==
    /\ turn = "swap"
    /\ turn' = "second"
    /\ twin' = RunState
    /\ position' = twin.position /\ velocity' = twin.velocity
    /\ isGrounded' = twin.isGrounded /\ isSprinting' = twin.isSprinting
    /\ rotationY' = twin.rotationY
    /\ yaw' = twin.yaw /\ pitch' = twin.pitch
    /\ targetYaw' = twin.targetYaw /\ targetPitch' = twin.targetPitch
    /\ missionStops' = twin.missionStops /\ activeMission' = twin.activeMission
    /\ currentAction' = twin.currentAction /\ cameraDist' = twin.cameraDist
    /\ lastDelta' = twin.lastDelta
    /\ UNCHANGED <<inputVars, lookVars, blockedBoxes, actions, frame, startVars,
                   isFullMapOpen, elapsed, uiVars, qualityVars>>

\* the second run processes its frame with the delta the first run had, at another time
TwinFrameSecond ==
    /\ turn = "second"
    /\ frame' = frame + 1
    /\ animate(twin.lastDelta, HalfPi)
    /\ turn' = "first"

\* a key event, received by both runs between two frames
TwinKey ==
    /\ turn = "first"
    /\ PressKey \/ ReleaseKey

NextTwin == TwinFrameFirst \/ TwinSwap \/ TwinFrameSecond \/ TwinKey

SpecTwin == InitTwin /\ [][NextTwin]_vars

(***************************************************************************)
(* Properties of the movement integrator, checked under Spec               *)
(***************************************************************************)
\* a step of the specification that is a frame
IsFrame == frame' = frame + 1

\* the frame ran with this delta
FrameWith(delta) ==
    /\ IsFrame
    /\ position' = updatePlayerMovement(delta).position
    /\ velocity' = updatePlayerMovement(delta).velocity

\* C1: character.position.x lies in [MAP_BOUNDS.minX, MAP_BOUNDS.maxX] and
\* character.position.z in [MAP_BOUNDS.minZ, MAP_BOUNDS.maxZ] after every update,
\* whatever keys, jumps and teleports came before.
BoundaryClampLaw ==
    /\ position.x >= -145000 /\ position.x <= 180000
    /\ position.z >= -80000  /\ position.z <= 240000

\* C1 witness: a frame ended on the north-east corner while still moving outward.
ClampedAtCorner ==
    /\ frame > 0
    /\ position.x = MAP_BOUNDS.maxX /\ position.z = MAP_BOUNDS.maxZ
    /\ velocity.x > 0 /\ velocity.z > 0

\* the cap the frame's input state selects
ActiveCap(sprinting) == IF sprinting THEN SPRINT_SPEED ELSE WALK_SPEED

\* C2 as claimed: after every frame the horizontal speed is at most the cap of the
\* frame's input state, SPRINT_SPEED when isSprinting and WALK_SPEED otherwise.
SpeedWithinActiveCap ==
    frame > 0 => HSpeed(velocity) <= ActiveCap(isSprinting)

\* C2 amended: a frame with movement intent leaves the horizontal speed at most the
\* cap of its input state; a frame without intent never raises the speed (it only
\* decelerates it, without a cap).
SpeedCapOnIntentFrames ==
    [][IsFrame =>
         /\ HasIntent => HSpeed(velocity') <= ActiveCap(isSprinting')
         /\ ~HasIntent => HSpeed(velocity') <= HSpeed(velocity)]_vars

\* C2 witness: a sprinting frame ended exactly on the sprint cap.
SprintCapReached ==
    frame > 0 /\ isSprinting /\ HSpeed(velocity) = SPRINT_SPEED

NoPenetration == ~wouldCollide(position)

\* C7 as claimed: after a frame whose candidate position was blocked, the velocity no
\* longer carries the player into a collider: the candidate of a next frame of the
\* same length is not blocked.
BlockedVelocityNeutralized ==
    [][\A delta \in Deltas :
         (FrameWith(delta) /\ wouldCollide(Candidate(delta)))
            => ~wouldCollide(NextPos(position', velocity', delta))]_vars

\* the clip of the animation state for (grounded, horizontal speed, sprint request)
StateClip(grounded, hSpeed, sprint) ==
    CASE ~grounded                             -> "jump"
      [] grounded /\ hSpeed > 500 /\ sprint    -> "sprint"
      [] grounded /\ hSpeed > 500 /\ ~sprint   -> "running"
      [] OTHER                                 -> "idle"

KeepsSign(a, b) == (a > 0 => b >= 0) /\ (a < 0 => b <= 0) /\ (a = 0 => b = 0)

\* C3: over frames without movement intent the horizontal speed never increases,
\* velocity.x and velocity.z each keep their sign or become 0, and the velocity
\* reaches exactly 0 and stays there.
CoastToRest ==
    /\ [][/\ HSpeed(velocity') <= HSpeed(velocity)
          /\ KeepsSign(velocity.x, velocity'.x)
          /\ KeepsSign(velocity.z, velocity'.z)]_vars
    /\ <>[](velocity.x = 0 /\ velocity.z = 0)

\* C3 witness: the player has coasted away from where it started and is at rest.
CameToRest ==
    /\ velocity.x = 0 /\ velocity.z = 0
    /\ position.x # 0 \/ position.z # 0

InRange(stops, p, i) == DistanceLess(stops[i], p, INTERACT_DISTANCE)

\* C8: after the proximity check of a frame, a player within the radius of exactly
\* one marker has that marker as activeMission, and a player beyond the radius of
\* every marker has activeMission null.  The check reads the marker positions as the
\* frame found them and the position the frame has just set.
ProximityReport ==
    [][IsFrame =>
         /\ \A i \in 1..Len(missionStops) :
               (/\ InRange(missionStops, position', i)
                /\ \A j \in 1..Len(missionStops) :
                      j # i => ~InRange(missionStops, position', j))
               => activeMission' = i
         /\ (\A i \in 1..Len(missionStops) : ~InRange(missionStops, position', i))
               => activeMission' = 0]_vars

\* C8 witness: the fourth marker alone is in range and is the active one.
OneMarkerActive ==
    /\ frame > 0
    /\ activeMission = 4
    /\ \A j \in 1..3 : ~InRange(missionStops, position, j)

\* C9: activeMission names at most one marker, and with several markers in range it
\* is the first of them in missionStops order.
FirstMatchInListOrder ==
    [][IsFrame =>
         /\ activeMission' \in 0..Len(missionStops)
         /\ (\E i \in 1..Len(missionStops) : InRange(missionStops, position', i))
               => /\ activeMission' # 0
                  /\ InRange(missionStops, position', activeMission')
                  /\ \A j \in 1..(activeMission' - 1) :
                        ~InRange(missionStops, position', j)]_vars

\* C9 witness: two markers are in range, the second is the nearer one (within 1.5,
\* the first is not), and the first is the active one.
FirstNotNearestActive ==
    /\ frame > 0
    /\ activeMission = 1
    /\ InRange(missionStops, position, 1) /\ InRange(missionStops, position, 2)
    /\ DistanceLess(missionStops[2], position, 1500)
    /\ ~DistanceLess(missionStops[1], position, 1500)

(***************************************************************************)
(* The frame at rest, checked under Spec                                   *)
(***************************************************************************)
\* the player stands at the origin, grounded, with zero velocity and no input
AtRestAtOrigin ==
    /\ position = Vec(0, 0, 0)
    /\ velocity = Vec(0, 0, 0)
    /\ isGrounded
    /\ keys = {}
    /\ joyVector = JoyRest

\* C11: a frame from the origin, grounded, with zero velocity and no input leaves
\* character.position unchanged and selects the idle clip.
RestFrameKeepsIdle ==
    [][(IsFrame /\ AtRestAtOrigin) => (position' = position /\ currentAction' = "idle")]_vars

\* C11 witness: a frame has run from rest at the origin and the player is still there.
RestedOneFrame ==
    frame > 0 /\ AtRestAtOrigin /\ currentAction = "idle"

(***************************************************************************)
(* The collision oracle, checked under SpecCollide                         *)
(***************************************************************************)
\* the closed intervals [a1, a2] and [b1, b2] share a point
Overlap(a1, a2, b1, b2) ==
    \E c \in {a1, a2, b1, b2} : a1 <= c /\ c <= a2 /\ b1 <= c /\ c <= b2

\* the player box at p shares a point with the collider
PlayerBoxMeets(p, box) ==
    /\ Overlap(p.x - 600, p.x + 600, box.min.x, box.max.x)
    /\ Overlap(p.y, p.y + 2000, box.min.y, box.max.y)
    /\ Overlap(p.z - 600, p.z + 600, box.min.z, box.max.z)

\* C12: wouldCollide(p) is true exactly when the player box at p intersects some box
\* of blockedBoxes, and with no collider registered a frame never rejects the move:
\* the position advances by the frame's velocity (up to the map clamp).
CollisionOracle ==
    /\ [](wouldCollide(position) <=>
            \E i \in 1..Len(blockedBoxes) : PlayerBoxMeets(position, blockedBoxes[i]))
    /\ [][(IsFrame /\ blockedBoxes = << >>) =>
            \E delta \in Deltas :
               /\ position'.x = Clamp(position.x + TDiv(velocity'.x * delta, 1000),
                                      -145000, 180000)
               /\ position'.z = Clamp(position.z + TDiv(velocity'.z * delta, 1000),
                                      -80000, 240000)]_vars

\* C12 witness: a frame was rejected by the second collider of the list, which the
\* player box only touches.
RejectedByTouch ==
    /\ frame > 0
    /\ position = Vec(0, 0, 0) /\ velocity.z > 0
    /\ Len(blockedBoxes) = 2
    /\ ~PlayerBoxMeets(position, blockedBoxes[1])
    /\ wouldCollide(position)
    /\ blockedBoxes[2].min.z = 600

OnlyFramesWritePlayerState ==
    [][~IsFrame => UNCHANGED <<position, velocity, isGrounded, yaw, pitch, cameraDist>>]_vars

(***************************************************************************)
(* Facing, checked under SpecTurn                                          *)
(***************************************************************************)
\* C15 as claimed: on a frame that turns the character, the rotDiff that is scaled and
\* added to character.rotation.y lies in [-PI, PI] and is congruent to
\* targetRot - character.rotation.y modulo 2 PI.
ShortestTurn ==
    [][(IsFrame /\ HSpeed(velocity') > 500) =>
         \E rotDiff \in {RotDiff(Atan2(velocity'.x, velocity'.z), rotationY)} :
            /\ rotationY' = rotationY + TDiv(rotDiff * 15 * lastDelta', 1000)
            /\ rotDiff >= -Pi /\ rotDiff <= Pi
            /\ (rotDiff - (Atan2(velocity'.x, velocity'.z) - rotationY)) % TwoPi = 0]_vars

(***************************************************************************)
(* Properties of two runs in lock step, checked under SpecTwin             *)
(***************************************************************************)
\* C16: two runs that start from the same position, velocity, isGrounded, yaw, pitch
\* and camera targets and receive the same key events and the same delta in every
\* frame have the same position, velocity, isGrounded, yaw and pitch after every
\* frame, whatever the facing, the clip, the active marker, the marker heights, the
\* orbit distance and the time of the frame are in each run
TwinRunsAgree ==
    turn = "first" =>
        /\ position = twin.position
        /\ velocity = twin.velocity
        /\ isGrounded = twin.isGrounded
        /\ yaw = twin.yaw
        /\ pitch = twin.pitch

\* both runs have processed two frames, the player has moved and turned the camera,
\* and the runs still differ in facing and marker heights
TwinRunsMoved ==
    /\ turn = "first" /\ frame >= 2
    /\ HSpeed(velocity) > 500 /\ yaw # Pi
    /\ "w" \in keys
    /\ rotationY # twin.rotationY
    /\ missionStops # twin.missionStops

(***************************************************************************)
(* Properties of the clock, the full map and the wheel, under SpecShell     *)
(***************************************************************************)
\* C17: the delta a frame passes to updatePlayerMovement and updateCamera is at most
\* 0.033 s and is the time since the last processed frame when that is less, however
\* long the time was and whether or not the full map was open in between
DeltaCapped ==
    [][(IsFrame /\ ~isFullMapOpen) =>
         /\ lastDelta' <= 33
         /\ lastDelta' = IF elapsed < 33 THEN elapsed ELSE 33
         /\ FrameWith(lastDelta')
         /\ yaw' = updateCamera(lastDelta').yaw]_vars

\* C17 witness: the full map has been opened (which released the pointer) and closed
\* again; the first frame did not move the player, so it came while the map was open,
\* and the second, the first processed after it, had a delta of 0.033 s
CappedAfterMap ==
    /\ frame = 2 /\ lastDelta = 33 /\ elapsed = 0
    /\ ~isFullMapOpen /\ ~pointerLocked
    /\ velocity.z = 1980 /\ position.z = 65

\* C18: cameraDist lies in [MIN_DIST, MAX_DIST] = [2.0, 8.0] after any wheel events
OrbitDistanceClamped == cameraDist >= 2000 /\ cameraDist <= 8000

\* C18 witness: scrolling has taken the camera to the far limit
OrbitAtFarLimit == cameraDist = 8000 /\ frame > 0

(***************************************************************************)
(* Properties of the movement direction, checked under SpecJoy             *)
(***************************************************************************)
\* the length of a direction, in thousandths
DirLength(d) == Sqrt(LengthSq2(d.x, d.z))

\* C19: joyVector always has length at most 1; in every frame that accelerates, the
\* direction that scales the acceleration has length 1 (within 0.002, the rounding of
\* the thousandths kept), for every combination of w/a/s/d and joystick, so a player
\* at rest on the ground gains ACCELERATION * delta of speed in the frame
UnitDirection ==
    [][/\ LengthSq2(joyVector'.x, joyVector'.y) <= 1000000
       /\ (IsFrame /\ HasIntent) =>
             /\ DirLength(Normalize(InputDir)) \in 998..1002
             /\ FrameWith(lastDelta')
             /\ (isGrounded /\ HSpeed(velocity) = 0) =>
                    /\ HSpeed(velocity') <= 60 * lastDelta' + 4
                    /\ HSpeed(velocity') >= 60 * lastDelta' - 4]_vars

\* C19 witness: a frame accelerated from rest with w and d held and the joystick
\* pushed to its ring on the diagonal
DiagonalAtFullTilt ==
    /\ frame = 1 /\ lastDelta = 33
    /\ {"w", "d"} \subseteq keys
    /\ joyActive /\ joyVector.x > 500 /\ joyVector.y < -500
    /\ HSpeed(velocity) >= 1976

(***************************************************************************)
(* Properties of collider registration, checked under SpecStart            *)
(***************************************************************************)
\* the meshes of an asset with a blocked name, in traversal order
BlockedMeshes(meshes) ==
    SelectSeq(meshes, LAMBDA o : o.name \in {"Object_35", "Object_43", "Object_47",
                                             "Object_15", "Object_79"})

\* C20: blockedBoxes changes only in the step in which the world asset finishes
\* loading, which appends the box of each mesh of that asset whose name is in
\* BLOCKED_NAMES and of no other; every registered box carries such a name; once the
\* world is loaded no step changes blockedBoxes
CollidersFixedAfterLoad ==
    [][/\ blockedBoxes' # blockedBoxes =>
             /\ worldLoaded = "pending" /\ worldLoaded' = "loaded"
             /\ \E meshes \in WorldAssets : blockedBoxes' = blockedBoxes \o BlockedMeshes(meshes)
       /\ worldLoaded' # worldLoaded =>
             \E meshes \in WorldAssets : blockedBoxes' = blockedBoxes \o BlockedMeshes(meshes)
       /\ \A i \in 1..Len(blockedBoxes') : blockedBoxes'[i].name \in BLOCKED_NAMES
       /\ worldLoaded = "loaded" => blockedBoxes' = blockedBoxes]_vars

\* C20 witness: the world asset with two blocked meshes and a ground plane was loaded,
\* two boxes were registered, and the game has run frames and taken key events since
CollidersKeptThroughPlay ==
    /\ worldLoaded = "loaded"
    /\ Len(blockedBoxes) = 2
    /\ blockedBoxes[1].name = "Object_35" /\ blockedBoxes[2].name = "Object_43"
    /\ frame >= 2 /\ "w" \in keys

(***************************************************************************)
(* The start of the frame loop, checked under SpecStart                    *)
(***************************************************************************)
\* C21: whatever Enter presses, clicks, touches and load-complete events arrive, in
\* whatever order and however often, animate() starts the frame loop at most once,
\* only in a step after which assetsLoaded and userReady both hold, and frames are
\* processed by that one loop only
LoopStartedOnce ==
    [][/\ loops' \in {0, 1}
       /\ loops' # loops => (loops = 0 /\ assetsLoaded' /\ userReady')
       /\ IsFrame => (loops = 1 /\ assetsLoaded /\ userReady)]_vars

\* C21 witness: a click, a touch and the load-complete event have all arrived, and the
\* one loop has processed frames
StartedAfterManyEvents ==
    /\ loops = 1 /\ frame >= 1
    /\ pointerLocked /\ touchLook
    /\ assetsLoaded /\ userReady

(***************************************************************************)
(* The mission popup, checked under SpecPopup                              *)
(***************************************************************************)
\* C22 as claimed: whenever the popup opens, the player is at that moment within
\* INTERACT_DISTANCE of the marker whose key the popup shows
PopupShowsNearbyMarker ==
    [][(popupKey' # popupKey /\ popupKey' # "none") =>
         \E i \in 1..Len(missionStops) :
            /\ missionStops[i].key = popupKey'
            /\ InRange(missionStops, position, i)]_vars

(***************************************************************************)
(* Landing, checked under SpecFall                                         *)
(***************************************************************************)
\* C23: while frames keep coming, an airborne player becomes grounded again at height
\* 0, whatever collider is under or beside it and whether w is held or not
AirborneLands ==
    (~isGrounded) ~> (isGrounded /\ position.y = 0 /\ velocity.y = 0)

\* C23 witness: the player hung above the low collider, every candidate blocked, until
\* one frame carried it past the collider; it now stands on the ground inside it
LandedThroughCollider ==
    /\ isGrounded /\ position.y = 0
    /\ blockedBoxes = << FallBox >>
    /\ position.x = 0 /\ position.z = 0

(***************************************************************************)
(* The ground and the jump, checked under Spec                             *)
(***************************************************************************)
\* C24: in every state isGrounded implies position.y = 0 and velocity.y = 0; outside
\* the frame velocity.y changes only by the jump impulse, applied to a grounded
\* player at height 0; and while the player is airborne no key or teleport changes
\* velocity or isGrounded, so a Space press in the air does nothing
GroundedMeansAtRest ==
    /\ []((isGrounded => (position.y = 0 /\ velocity.y = 0)))
    /\ [][/\ (~IsFrame /\ velocity'.y # velocity.y) =>
                /\ isGrounded /\ position.y = 0
                /\ velocity'.y = 12000 /\ ~isGrounded'
          /\ (~IsFrame /\ ~isGrounded) => UNCHANGED <<velocity, isGrounded>>]_vars

\* C24 witness: after a frame the player has taken the jump impulse from the ground
JumpedFromGround ==
    /\ frame > 0
    /\ ~isGrounded /\ velocity.y = 12000 /\ position.y = 0

(***************************************************************************)
(* Frames while the full map is open, checked under SpecShell              *)
(***************************************************************************)
\* C25: a frame that finds the full map open leaves character.position, velocity,
\* isGrounded, yaw, pitch and activeMission (and the clock) unchanged, and a frame
\* that changes any of them found the map closed
MapSuspendsFrames ==
    [][IsFrame =>
         /\ isFullMapOpen =>
               UNCHANGED <<position, velocity, isGrounded, yaw, pitch, activeMission,
                           rotationY, currentAction, missionStops, elapsed, lastDelta>>
         /\ ~isFullMapOpen =>
               /\ FrameWith(lastDelta')
               /\ activeMission' = checkMissionProximity(missionStops, position')]_vars

\* C25 witness: with w held and 0.066 s on the clock, two frames have come while the
\* map was open and the player has not moved
HeldStillByMap ==
    /\ isFullMapOpen /\ frame = 2
    /\ "w" \in keys /\ elapsed >= 66
    /\ position = Vec(0, 0, 0) /\ velocity = Vec(0, 0, 0)

\* C26: QUALITY is always low, medium or high; a step never moves it by more than
\* one level; and once qualityLocked is true it stays true and QUALITY stays as it is
QualityRank(quality) == CHOOSE i \in 1..Len(QualityLevels) : QualityLevels[i] = quality

QualityStepsOneLevel ==
    /\ [](QUALITY \in {"low", "medium", "high"})
    /\ [][/\ QualityRank(QUALITY') - QualityRank(QUALITY) \in {-1, 0, 1}
          /\ qualityLocked => (qualityLocked' /\ QUALITY' = QUALITY)]_vars

\* the check stepped down from medium and later locked the level
LockedAtLow ==
    /\ qualityLocked /\ QUALITY = "low"
    /\ csm = "null" /\ ~shadowMapEnabled

\* C27: a cascaded-shadow-map instance exists only while QUALITY is high, and
\* renderer.shadowMap.enabled is true exactly while QUALITY is high
ShadowsOnlyAtHigh ==
    /\ csm # "null" => QUALITY = "high"
    /\ shadowMapEnabled <=> QUALITY = "high"

\* the check stepped up to high and built the cascades
HighWithCascades ==
    /\ QUALITY = "high" /\ csm = "CSM" /\ shadowMapEnabled
    /\ ~qualityLocked

\* C28: while activeGallery is non-empty galleryIndex is one of its indices, and
\* after a click on galleryPrev a click on galleryNext would bring galleryIndex
\* back to the value it had before the two clicks
GalleryIndexInRange ==
    Len(activeGallery) > 0 => galleryIndex \in 0..(Len(activeGallery) - 1)

PrevThenNextRestores ==
    [][(/\ activeGallery' = activeGallery
        /\ galleryIndex' = GalleryStep(galleryIndex, Len(activeGallery) - 1,
                                        Len(activeGallery)))
          => GalleryStep(galleryIndex', 1, Len(activeGallery')) = galleryIndex]_vars

GalleryIndexKept == []GalleryIndexInRange /\ PrevThenNextRestores

====
